---- MODULE Spec2Model ----
(***************************************************************************)
(* A model of scoped-event-bus: the EventBus class of src/src/EventBus.ts. *)
(* The state is the scoped registry (_subscribers), the plain listeners    *)
(* held by the inherited EventTarget, and the frame of the dispatch that   *)
(* is running or has just ended; last names the latest call that changed   *)
(* the registry.                                                           *)
(***************************************************************************)
EXTENDS Integers, Sequences, FiniteSets, TLC

VARIABLES subscribers, plain, pc, cur, last

vars == <<subscribers, plain, pc, cur, last>>

-----------------------------------------------------------------------------
(* Bounds of the model and the small sets the inputs are drawn from.       *)

\* The registry holds at most this many records, over all its buckets.
MaxRecords == 3

Events == {"e1", "e2"}
Callbacks == {"f", "g"}
Subscribers == {"s1", "s2"}
Scopes == {"A", "B"}
Phases == {"before", "after"}

\* The value of an omitted argument or property.
Undefined == "undefined"

OptScopes == Scopes \cup {Undefined}
OptPhases == Phases \cup {Undefined}

\* Regular expressions given as the event of a registration: the first
\* matches the name e1 alone, the second e1 and e2.
Patterns == {"/^e1$/", "/^e[12]$/"}

\* The event argument: one name, or a list of names.
EventLists == {<<e>> : e \in Events} \cup {<<"e1", "e2">>}

-----------------------------------------------------------------------------
(* Helpers for the JavaScript the code relies on.                          *)

\* !x for an optional string: undefined and the empty string are falsy.
Falsy(x) == x = Undefined \/ x = ""

\* Array.prototype.splice(i, 1), with i counted from 1.
Splice(s, i) == SubSeq(s, 1, i - 1) \o SubSeq(s, i + 1, Len(s))

\* A stored listener record.
Listener(cb, ph, sc, sub) ==
    [callback |-> cb, phase |-> ph, scope |-> sc, subscriber |-> sub]

\* phase: ScopedEventPhase = 'after'
DefaultPhase(ph) == IF ph = Undefined THEN "after" ELSE ph

\* Map.get: the bucket of a key, the empty list standing for a missing key
\* only where the code tests the result before using it.
HasKey(m, e) == e \in DOMAIN m

MapSet(m, e, v) == [k \in (DOMAIN m) \cup {e} |-> IF k = e THEN v ELSE m[k]]

MapDelete(m, e) == [k \in (DOMAIN m) \ {e} |-> m[k]]

\* getOrSetValue(map, key, []) as the map after the call.
getOrSetValue(m, e) == IF HasKey(m, e) THEN m ELSE MapSet(m, e, <<>>)

RECURSIVE SumLen(_, _)
SumLen(m, ks) ==
    IF ks = {} THEN 0
    ELSE LET k == CHOOSE x \in ks : TRUE
         IN Len(m[k]) + SumLen(m, ks \ {k})

\* The number of records the registry holds.
Total(m) == SumLen(m, DOMAIN m)

-----------------------------------------------------------------------------
(* addScopedEventListener                                                  *)

\* The scan of one bucket, from index i on: the bucket after the scan and
\* whether the record is then pushed (add) or the event skipped.
RECURSIVE AddScan(_, _, _, _, _, _)
AddScan(subs, i, cb, sub, sc, ph) ==
    IF i > Len(subs) THEN [subs |-> subs, add |-> TRUE]
    ELSE LET s == subs[i] IN
         IF s.subscriber = sub /\ s.phase = ph /\ s.callback = cb
         THEN IF Falsy(s.scope) \/ s.scope = sc
              THEN [subs |-> subs, add |-> FALSE]
              ELSE IF Falsy(sc)
                   THEN AddScan(Splice(subs, i), i + 1, cb, sub, sc, ph)
                   ELSE AddScan(subs, i + 1, cb, sub, sc, ph)
         ELSE AddScan(subs, i + 1, cb, sub, sc, ph)

\* AddOne putting the new record at the head of the bucket (unshift) instead
\* of its end (push).
AddOnePrepends(m, e, cb, sub, sc, ph) ==
    LET m1 == getOrSetValue(m, e)
        r == AddScan(m1[e], 1, cb, sub, sc, ph)
    IN IF r.add
       THEN MapSet(m1, e, <<Listener(cb, ph, sc, sub)>> \o r.subs)
       ELSE MapSet(m1, e, r.subs)

\* The body of event_loop for one event e.
AddOne(m, e, cb, sub, sc, ph) ==
    LET m1 == getOrSetValue(m, e)
        r == AddScan(m1[e], 1, cb, sub, sc, ph)
    IN IF r.add
       THEN MapSet(m1, e, Append(r.subs, Listener(cb, ph, sc, sub)))
       ELSE MapSet(m1, e, r.subs)

\* AddAll leaving event_loop at the first event it skips, instead of going
\* on with the next one.
RECURSIVE AddAllBreaksOnSkip(_, _, _, _, _, _)
AddAllBreaksOnSkip(m, evs, cb, sub, sc, ph) ==
    IF evs = <<>> THEN m
    ELSE LET m1 == AddOne(m, Head(evs), cb, sub, sc, DefaultPhase(ph))
         IN IF AddScan((IF HasKey(m, Head(evs)) THEN m[Head(evs)] ELSE <<>>), 1, cb, sub, sc,
                       DefaultPhase(ph)).add
            THEN AddAllBreaksOnSkip(m1, Tail(evs), cb, sub, sc, ph)
            ELSE m1

\* The registry after addScopedEventListener(event, callback, subscriber,
\* scope, phase), event given as a list.
RECURSIVE AddAll(_, _, _, _, _, _)
AddAll(m, evs, cb, sub, sc, ph) ==
    IF evs = <<>> THEN m
    ELSE AddAll(AddOne(m, Head(evs), cb, sub, sc, DefaultPhase(ph)),
                Tail(evs), cb, sub, sc, ph)

-----------------------------------------------------------------------------
(* removeScopedEventListener                                               *)

\* RemoveMatch without the test of the phase.
RemoveMatchAnyPhase(s, cb, sub, sc, ph) ==
    /\ s.callback = cb
    /\ s.subscriber = sub
    /\ (Falsy(sc) \/ s.scope = sc)

RemoveMatch(s, cb, sub, sc, ph) ==
    /\ s.callback = cb
    /\ s.subscriber = sub
    /\ (Falsy(ph) \/ s.phase = ph)
    /\ (Falsy(sc) \/ s.scope = sc)

\* The index of the first record the call matches, 0 when there is none.
FirstMatch(subs, cb, sub, sc, ph) ==
    LET hits == {i \in 1..Len(subs) : RemoveMatch(subs[i], cb, sub, sc, ph)}
    IN IF hits = {} THEN 0 ELSE CHOOSE i \in hits : \A j \in hits : i <= j

\* RemoveOne reading the bucket through getOrSetValue, as the adding call
\* does: an event without a bucket gets an empty one.
RemoveOneSetsKey(m, e, cb, sub, sc, ph) ==
    LET m1 == getOrSetValue(m, e)
        i == FirstMatch(m1[e], cb, sub, sc, ph)
    IN IF i = 0 THEN m1
       ELSE LET rest == Splice(m1[e], i) IN
            IF Len(rest) = 0 THEN MapDelete(m1, e) ELSE MapSet(m1, e, rest)

\* RemoveOne without the deletion of the emptied key.
RemoveOneKeepsKey(m, e, cb, sub, sc, ph) ==
    IF ~HasKey(m, e) THEN m
    ELSE LET i == FirstMatch(m[e], cb, sub, sc, ph) IN
         IF i = 0 THEN m ELSE MapSet(m, e, Splice(m[e], i))

RemoveOne(m, e, cb, sub, sc, ph) ==
    IF ~HasKey(m, e) THEN m
    ELSE LET i == FirstMatch(m[e], cb, sub, sc, ph) IN
         IF i = 0 THEN m
         ELSE LET rest == Splice(m[e], i) IN
              IF Len(rest) = 0 THEN MapDelete(m, e) ELSE MapSet(m, e, rest)

RECURSIVE RemoveAll(_, _, _, _, _, _)
RemoveAll(m, evs, cb, sub, sc, ph) ==
    IF evs = <<>> THEN m
    ELSE RemoveAll(RemoveOne(m, Head(evs), cb, sub, sc, ph),
                   Tail(evs), cb, sub, sc, ph)

-----------------------------------------------------------------------------
(* removeAllScopedEventListeners and removeScope                           *)

\* The inner loop of removeAllScopedEventListeners over one bucket, from
\* index i on: every matching record is spliced out, and the loop breaks when
\* the bucket is empty.
\* RemoveAllLoop without the i-- that follows a splice.
RECURSIVE RemoveAllLoopNoStepBack(_, _, _, _)
RemoveAllLoopNoStepBack(subs, i, sub, sc) ==
    IF i > Len(subs) THEN subs
    ELSE IF subs[i].subscriber = sub /\ (Falsy(sc) \/ subs[i].scope = sc)
         THEN LET rest == Splice(subs, i) IN
              IF Len(rest) = 0 THEN rest
              ELSE RemoveAllLoopNoStepBack(rest, i + 1, sub, sc)
         ELSE RemoveAllLoopNoStepBack(subs, i + 1, sub, sc)

RECURSIVE RemoveAllLoop(_, _, _, _)
RemoveAllLoop(subs, i, sub, sc) ==
    IF i > Len(subs) THEN subs
    ELSE IF subs[i].subscriber = sub /\ (Falsy(sc) \/ subs[i].scope = sc)
         THEN LET rest == Splice(subs, i) IN
              IF Len(rest) = 0 THEN rest ELSE RemoveAllLoop(rest, i, sub, sc)
         ELSE RemoveAllLoop(subs, i + 1, sub, sc)

\* RemoveScopeLoop without the i-- that follows a splice.
RECURSIVE RemoveScopeLoopNoStepBack(_, _, _)
RemoveScopeLoopNoStepBack(subs, i, sc) ==
    IF i > Len(subs) THEN subs
    ELSE IF subs[i].scope = sc
         THEN LET rest == Splice(subs, i) IN
              IF Len(rest) = 0 THEN rest
              ELSE RemoveScopeLoopNoStepBack(rest, i + 1, sc)
         ELSE RemoveScopeLoopNoStepBack(subs, i + 1, sc)

\* The inner loop of removeScope over one bucket.
RECURSIVE RemoveScopeLoop(_, _, _)
RemoveScopeLoop(subs, i, sc) ==
    IF i > Len(subs) THEN subs
    ELSE IF subs[i].scope = sc
         THEN LET rest == Splice(subs, i) IN
              IF Len(rest) = 0 THEN rest ELSE RemoveScopeLoop(rest, i, sc)
         ELSE RemoveScopeLoop(subs, i + 1, sc)

\* The outer loop over the map, given each bucket after its inner loop: a
\* bucket the inner loop emptied has its key deleted.
SweepMap(m, swept) ==
    LET kept == {k \in DOMAIN m : ~(Len(swept[k]) = 0 /\ Len(m[k]) > 0)}
    IN [k \in kept |-> swept[k]]

RemoveAllOf(m, sub, sc) ==
    SweepMap(m, [k \in DOMAIN m |-> RemoveAllLoop(m[k], 1, sub, sc)])

RemoveScopeOf(m, sc) ==
    SweepMap(m, [k \in DOMAIN m |-> RemoveScopeLoop(m[k], 1, sc)])

-----------------------------------------------------------------------------
(* getEventHooks(event, subscriber, scope).unsubscribe(phase)              *)

\* `listeners` is the bucket's array itself: once the key is deleted the
\* array is empty and the loop ends.
RECURSIVE HookLoop(_, _, _, _, _, _)
HookLoop(m, i, e, sub, sc, ph) ==
    IF ~HasKey(m, e) \/ i > Len(m[e]) THEN m
    ELSE LET l == m[e][i] IN
         IF l.subscriber = sub /\ l.scope = sc /\ (Falsy(ph) \/ l.phase = ph)
         THEN HookLoop(RemoveOne(m, e, l.callback, sub, sc, l.phase),
                       i, e, sub, sc, ph)
         ELSE HookLoop(m, i + 1, e, sub, sc, ph)

HookUnsubscribe(m, e, sub, sc, ph) ==
    IF HasKey(m, e) THEN HookLoop(m, 1, e, sub, sc, ph) ELSE m

-----------------------------------------------------------------------------
(* addEventListener on the bus and on the inherited EventTarget            *)

\* typeof callback === 'function'
IsFunction(cb) == cb \in Callbacks

\* A callback argument that is not a function, such as null or an object.
NotCallable == "notCallable"

\* The options argument, reduced to the three properties the bus reads; an
\* omitted argument reads as all three undefined.
Options(sub, sc, ph) == [subscriber |-> sub, scope |-> sc, phase |-> ph]

NoOptions == Options(Undefined, Undefined, Undefined)

\* EventTarget.addEventListener: the listener list holds a (type, callback)
\* pair once.
SuperAdd(pl, type, cb) == pl \cup {<<type, cb>>}

\* EventTarget.removeEventListener
SuperRemove(pl, type, cb) == pl \ {<<type, cb>>}

\* The option values of a caller: each of subscriber, scope and phase given
\* or not.
OptionShapes ==
    {Options(sub, sc, ph) :
        sub \in Subscribers \cup {Undefined}, sc \in OptScopes, ph \in OptPhases}

\* AddRedirects testing the subscriber alone.
AddRedirectsOnSubscriber(opts) == ~Falsy(opts.subscriber)

\* The test that redirects addEventListener to the scoped registry.
AddRedirects(opts) ==
    /\ ~Falsy(opts.subscriber)
    /\ ~Falsy(opts.phase) /\ ~Falsy(opts.scope) /\ ~Falsy(opts.subscriber)

\* The test that redirects removeEventListener to the scoped registry.
RemoveRedirects(opts) == ~Falsy(opts.subscriber)

\* The two stores after addEventListener(type, cb, opts).
AddListener(reg, pl, type, cb, opts) ==
    IF ~IsFunction(cb) THEN [subscribers |-> reg, plain |-> pl]
    ELSE IF AddRedirects(opts)
         THEN [subscribers |-> AddAll(reg, <<type>>, cb, opts.subscriber,
                                      opts.scope, opts.phase),
               plain |-> pl]
         ELSE [subscribers |-> reg, plain |-> SuperAdd(pl, type, cb)]

\* The two stores after removeEventListener(type, cb, opts).
RemoveListener(reg, pl, type, cb, opts) ==
    IF ~IsFunction(cb) THEN [subscribers |-> reg, plain |-> pl]
    ELSE IF RemoveRedirects(opts)
         THEN [subscribers |-> RemoveAll(reg, <<type>>, cb, opts.subscriber,
                                         opts.scope, opts.phase),
               plain |-> pl]
         ELSE [subscribers |-> reg, plain |-> SuperRemove(pl, type, cb)]

-----------------------------------------------------------------------------
(* dispatchScopedEvent                                                     *)

\* new CustomEvent(event, { detail }): no `cancelable` is passed, and the
\* CustomEventInit default is false.
CustomEvent(type) ==
    [type |-> type, cancelable |-> FALSE, defaultPrevented |-> FALSE]

\* Event.preventDefault(): sets the canceled flag of a cancelable event only.
PreventDefault(e) ==
    [e EXCEPT !.defaultPrevented = e.defaultPrevented \/ e.cancelable]

\* What an invoked scoped callback does: nothing, a call of
\* event.preventDefault(), or raising. It calls no method of the bus.
Effects == {"none", "preventDefault", "throw"}

\* AfterGet reading the bucket through getOrSetValue, as the adding call
\* does.
AfterGetOrSet(m, e) == getOrSetValue(m, e)

\* The registry after this._subscribers.get(e): Map.get sets nothing.
AfterGet(m, e) == m

\* EntersLoop without the test of the scope.
EntersLoopAnyScope(m, ev, sc) == HasKey(m, ev)

\* Whether dispatchScopedEvent(ev, sc) enters the loop over the bucket of ev.
EntersLoop(m, ev, sc) == ~Falsy(sc) /\ HasKey(m, ev)

\* Delivers without the comparison of the scopes.
DeliversAny(s, sc) == TRUE

\* Whether the loop of dispatchScopedEvent invokes record s.
Delivers(s, sc) == s.scope = sc

\* The first index from i on whose record the loop invokes, 0 when the loop
\* ends without another invocation.
NextDelivery(subs, i, sc) ==
    LET hits == {j \in i..Len(subs) : Delivers(subs[j], sc)}
    IN IF hits = {} THEN 0 ELSE CHOOSE j \in hits : \A k \in hits : j <= k

\* GoesGlobal testing for the other phase.
GoesGlobalBefore(ph, e) == ph = "before" /\ (~e.cancelable \/ ~e.defaultPrevented)

\* The test guarding the global dispatch.
GoesGlobal(ph, e) == ph = "after" \/ ~e.cancelable \/ ~e.defaultPrevented

\* EventTarget.dispatchEvent: the callbacks registered for the event's type.
Fired(pl, type) == {cb \in Callbacks : <<type, cb>> \in pl}

ScopedEntry(l) == [kind |-> "scoped", listener |-> l, fired |-> {}]

BroadcastEntry(fired) == [kind |-> "broadcast", listener |-> Undefined, fired |-> fired]

-----------------------------------------------------------------------------
(* The state.                                                              *)

Idle == [event |-> Undefined, scope |-> Undefined, phase |-> Undefined,
         e |-> CustomEvent(Undefined), i |-> 0, log |-> <<>>,
         prevented |-> FALSE, result |-> TRUE]

Init ==
    /\ subscribers = <<>>
    /\ plain = {}
    /\ pc = "idle"
    /\ cur = Idle
    /\ last = "new"

\* No dispatch is running: the bus accepts a call.
Quiet == pc \in {"idle", "returned", "aborted"}

Rest == pc' = "idle" /\ cur' = Idle

\* last names the latest call that changed the registry.
Touched(op) == last' = IF subscribers' # subscribers THEN op ELSE last

addScopedEventListener(evs, cb, sub, sc, ph) ==
    /\ Quiet
    /\ Total(subscribers) + Len(evs) <= MaxRecords
    /\ subscribers' = AddAll(subscribers, evs, cb, sub, sc, ph)
    /\ Touched("add")
    /\ Rest
    /\ UNCHANGED plain

removeScopedEventListener(evs, cb, sub, sc, ph) ==
    /\ Quiet
    /\ subscribers' = RemoveAll(subscribers, evs, cb, sub, sc, ph)
    /\ Touched("remove")
    /\ Rest
    /\ UNCHANGED plain

removeAllScopedEventListeners(sub, sc) ==
    /\ Quiet
    /\ subscribers' = RemoveAllOf(subscribers, sub, sc)
    /\ Touched("removeAll")
    /\ Rest
    /\ UNCHANGED plain

removeScope(sc) ==
    /\ Quiet
    /\ subscribers' = RemoveScopeOf(subscribers, sc)
    /\ Touched("removeScope")
    /\ Rest
    /\ UNCHANGED plain

\* getEventHooks(e, sub, sc).after(cb) and .before(cb)
hooksSubscribe(e, sub, sc, cb, ph) ==
    /\ Quiet
    /\ Total(subscribers) < MaxRecords
    /\ subscribers' = AddAll(subscribers, <<e>>, cb, sub, sc, ph)
    /\ Touched("add")
    /\ Rest
    /\ UNCHANGED plain

\* getEventHooks(e, sub, sc).unsubscribe(ph)
hooksUnsubscribe(e, sub, sc, ph) ==
    /\ Quiet
    /\ subscribers' = HookUnsubscribe(subscribers, e, sub, sc, ph)
    /\ Touched("unsubscribe")
    /\ Rest
    /\ UNCHANGED plain

addEventListener(type, cb, opts) ==
    /\ Quiet
    /\ Total(subscribers) < MaxRecords
    /\ LET r == AddListener(subscribers, plain, type, cb, opts)
       IN subscribers' = r.subscribers /\ plain' = r.plain
    /\ Touched("add")
    /\ Rest

removeEventListener(type, cb, opts) ==
    /\ Quiet
    /\ LET r == RemoveListener(subscribers, plain, type, cb, opts)
       IN subscribers' = r.subscribers /\ plain' = r.plain
    /\ Touched("remove")
    /\ Rest

\* dispatchScopedEvent(ev, sc, ph), up to the loop over the bucket.
dispatchScopedEvent(ev, sc, ph) ==
    /\ Quiet
    /\ cur' = [Idle EXCEPT !.event = ev, !.scope = sc,
                           !.phase = DefaultPhase(ph),
                           !.e = CustomEvent(ev), !.i = 1]
    /\ pc' = IF EntersLoop(subscribers, ev, sc) THEN "scoped" ELSE "global"
    /\ subscribers' = IF Falsy(sc) THEN subscribers ELSE AfterGet(subscribers, ev)
    /\ UNCHANGED <<plain, last>>

\* The loop over the bucket, up to and including the next callback it
\* invokes; the callback does eff.
Deliver(eff) ==
    /\ pc = "scoped"
    /\ LET subs == IF HasKey(subscribers, cur.event)
                   THEN subscribers[cur.event] ELSE <<>>
           j == NextDelivery(subs, cur.i, cur.scope)
       IN IF j = 0
          THEN /\ eff = "none"
               /\ pc' = "global"
               /\ cur' = cur
          ELSE /\ cur' = [cur EXCEPT
                            !.i = j + 1,
                            !.log = Append(@, ScopedEntry(subs[j])),
                            !.prevented = @ \/ eff = "preventDefault",
                            !.e = IF eff = "preventDefault"
                                  THEN PreventDefault(@) ELSE @]
               /\ pc' = IF eff = "throw" THEN "aborted" ELSE "scoped"
    /\ UNCHANGED <<subscribers, plain, last>>

\* A bus call made by a callback during its invocation, when it changed the
\* registry: kind is "removed" or "added" and l the record.
CallEntry(kind, l) == [kind |-> kind, listener |-> l, fired |-> {}]

\* The frame after the loop has invoked record j of bucket subs and the
\* callback has made a bus call that left the registry as m: the loop goes on
\* from index j + 1 of the array as the call left it.
Called(subs, j, m, kind, l) ==
    [cur EXCEPT
       !.i = j + 1,
       !.log = IF m = subscribers
               THEN Append(@, ScopedEntry(subs[j]))
               ELSE Append(Append(@, ScopedEntry(subs[j])), CallEntry(kind, l))]

\* The loop over the bucket, up to and including the next callback it
\* invokes; the callback calls removeScopedEventListener for record k of the
\* bucket, itself or another.
DeliverRemoving(k) ==
    /\ pc = "scoped"
    /\ HasKey(subscribers, cur.event)
    /\ LET subs == subscribers[cur.event]
           j == NextDelivery(subs, cur.i, cur.scope)
       IN /\ j # 0
          /\ k \in 1..Len(subs)
          /\ LET m == RemoveAll(subscribers, <<cur.event>>, subs[k].callback,
                                subs[k].subscriber, subs[k].scope, subs[k].phase)
             IN /\ subscribers' = m
                /\ cur' = Called(subs, j, m, "removed", subs[k])
    /\ pc' = "scoped"
    /\ Touched("remove")
    /\ UNCHANGED plain

\* The same, the callback calling addScopedEventListener for the dispatched
\* event and scope.
DeliverAdding(cb, sub, ph) ==
    /\ pc = "scoped"
    /\ HasKey(subscribers, cur.event)
    /\ Total(subscribers) < MaxRecords
    /\ LET subs == subscribers[cur.event]
           j == NextDelivery(subs, cur.i, cur.scope)
       IN /\ j # 0
          /\ LET m == AddAll(subscribers, <<cur.event>>, cb, sub, cur.scope, ph)
             IN /\ subscribers' = m
                /\ cur' = Called(subs, j, m, "added",
                                 Listener(cb, DefaultPhase(ph), cur.scope, sub))
    /\ pc' = "scoped"
    /\ Touched("add")
    /\ UNCHANGED plain

\* The end of dispatchScopedEvent: the global dispatch, or `return false`.
\* pp: a plain listener calls preventDefault.
Finish(pp) ==
    /\ pc = "global"
    /\ IF GoesGlobal(cur.phase, cur.e)
       THEN LET fired == Fired(plain, cur.event)
                e1 == IF pp /\ fired # {} THEN PreventDefault(cur.e) ELSE cur.e
            IN cur' = [cur EXCEPT
                         !.log = Append(@, BroadcastEntry(fired)),
                         !.e = e1,
                         !.result = ~e1.defaultPrevented]
       ELSE /\ pp = FALSE
            /\ cur' = [cur EXCEPT !.result = FALSE]
    /\ pc' = "returned"
    /\ UNCHANGED <<subscribers, plain, last>>

-----------------------------------------------------------------------------
(* The registry under every registering and removing call.                 *)

Next ==
    \/ \E evs \in EventLists, cb \in Callbacks, sub \in Subscribers,
          sc \in OptScopes, ph \in OptPhases :
          addScopedEventListener(evs, cb, sub, sc, ph)
    \/ \E evs \in EventLists, cb \in Callbacks, sub \in Subscribers,
          sc \in OptScopes, ph \in OptPhases :
          removeScopedEventListener(evs, cb, sub, sc, ph)
    \/ \E sub \in Subscribers, sc \in OptScopes :
          removeAllScopedEventListeners(sub, sc)
    \/ \E sc \in Scopes : removeScope(sc)
    \/ \E e \in Events, sub \in Subscribers, sc \in OptScopes,
          cb \in Callbacks, ph \in Phases :
          hooksSubscribe(e, sub, sc, cb, ph)
    \/ \E e \in Events, sub \in Subscribers, sc \in OptScopes,
          ph \in OptPhases :
          hooksUnsubscribe(e, sub, sc, ph)

Spec == Init /\ [][Next]_vars

(* The registry under the calls that register and remove callback f, for   *)
(* either subscriber.                                                      *)

NextRegistry ==
    \/ \E evs \in EventLists, sub \in Subscribers,
          sc \in OptScopes, ph \in OptPhases :
          addScopedEventListener(evs, "f", sub, sc, ph)
    \/ \E e \in Events, sub \in Subscribers,
          sc \in OptScopes, ph \in OptPhases :
          removeScopedEventListener(<<e>>, "f", sub, sc, ph)
    \/ \E sub \in Subscribers, sc \in OptScopes :
          removeAllScopedEventListeners(sub, sc)
    \/ \E sc \in Scopes : removeScope(sc)
    \/ \E e \in Events, sub \in Subscribers, sc \in OptScopes,
          ph \in OptPhases :
          hooksUnsubscribe(e, sub, sc, ph)

SpecRegistry == Init /\ [][NextRegistry]_vars

(* Dispatches over a registry built by registrations: subscriber s1        *)
(* registers callback f in any scope and phase, and g is the plain         *)
(* listener.                                                               *)

NextDispatch ==
    \/ \E e \in Events, sc \in OptScopes, ph \in OptPhases :
          addScopedEventListener(<<e>>, "f", "s1", sc, ph)
    \/ \E e \in Events : addEventListener(e, "g", NoOptions)
    \/ \E e \in Events, sc \in OptScopes, ph \in OptPhases :
          dispatchScopedEvent(e, sc, ph)
    \/ \E eff \in Effects : Deliver(eff)
    \/ \E pp \in BOOLEAN : Finish(pp)

SpecDispatch == Init /\ [][NextDispatch]_vars

(* Dispatches over a registry whose registrations name an event or give a  *)
(* regular expression, which the Map takes as a key like any other.        *)

NextPattern ==
    \/ \E k \in Events \cup Patterns, sc \in Scopes, ph \in Phases :
          addScopedEventListener(<<k>>, "f", "s1", sc, ph)
    \/ \E e \in Events, sc \in OptScopes, ph \in OptPhases :
          dispatchScopedEvent(e, sc, ph)
    \/ \E eff \in Effects : Deliver(eff)
    \/ \E pp \in BOOLEAN : Finish(pp)

SpecPattern == Init /\ [][NextPattern]_vars

(* Registrations of one subscriber's callback for an event or a list of    *)
(* events, and its removals.                                               *)

NextList ==
    \/ \E evs \in EventLists, sc \in OptScopes, ph \in OptPhases :
          addScopedEventListener(evs, "f", "s1", sc, ph)
    \/ \E e \in Events, sc \in OptScopes, ph \in OptPhases :
          removeScopedEventListener(<<e>>, "f", "s1", sc, ph)

SpecList == Init /\ [][NextList]_vars

(* Dispatches whose callbacks may call the bus: a callback removes a record *)
(* of the bucket or registers one more for the dispatched event and scope. *)

NextReentrant ==
    \/ \E e \in Events, cb \in Callbacks, sc \in Scopes, ph \in OptPhases :
          addScopedEventListener(<<e>>, cb, "s1", sc, ph)
    \/ \E e \in Events, sc \in Scopes, ph \in OptPhases :
          dispatchScopedEvent(e, sc, ph)
    \/ \E eff \in Effects : Deliver(eff)
    \/ \E k \in 1..MaxRecords : DeliverRemoving(k)
    \/ \E cb \in Callbacks, ph \in OptPhases : DeliverAdding(cb, "s1", ph)
    \/ \E pp \in BOOLEAN : Finish(pp)

SpecReentrant == Init /\ [][NextReentrant]_vars

(* The two stores side by side: scoped registrations and every call that   *)
(* removes them, plain listeners added and removed without options, and    *)
(* dispatches.                                                             *)

NextStores ==
    \/ \E e \in Events, sc \in Scopes, ph \in Phases :
          addScopedEventListener(<<e>>, "f", "s1", sc, ph)
    \/ \E e \in Events, cb \in Callbacks : addEventListener(e, cb, NoOptions)
    \/ \E e \in Events, cb \in Callbacks : removeEventListener(e, cb, NoOptions)
    \/ \E e \in Events, sc \in Scopes, ph \in Phases :
          removeScopedEventListener(<<e>>, "f", "s1", sc, ph)
    \/ \E sc \in OptScopes : removeAllScopedEventListeners("s1", sc)
    \/ \E sc \in Scopes : removeScope(sc)
    \/ \E e \in Events, sc \in Scopes, ph \in OptPhases :
          hooksUnsubscribe(e, "s1", sc, ph)
    \/ \E e \in Events, ph \in Phases : dispatchScopedEvent(e, "A", ph)
    \/ \E eff \in Effects : Deliver(eff)
    \/ \E pp \in BOOLEAN : Finish(pp)

SpecStores == Init /\ [][NextStores]_vars

(* The listener calls inherited from EventTarget, made with or without the *)
(* subscriber s1, the scope A and a phase, next to scope-less              *)
(* registrations of callback f by subscriber s1.                           *)

NextListener ==
    \/ \E type \in Events, cb \in Callbacks, sub \in {Undefined, "s1"},
          sc \in {Undefined, "A"}, ph \in OptPhases :
          addEventListener(type, cb, Options(sub, sc, ph))
    \/ \E type \in Events, cb \in Callbacks, sub \in {Undefined, "s1"},
          sc \in {Undefined, "A"}, ph \in OptPhases :
          removeEventListener(type, cb, Options(sub, sc, ph))
    \/ \E e \in Events, ph \in OptPhases :
          addScopedEventListener(<<e>>, "f", "s1", Undefined, ph)

SpecListener == Init /\ [][NextListener]_vars

-----------------------------------------------------------------------------
(* Properties of the registry.                                             *)

\* The number of records of bucket subs equal to r.
Count(subs, r) == Cardinality({i \in 1..Len(subs) : subs[i] = r})

\* The records of bucket subs with the given (callback, subscriber, phase).
OfTriple(subs, cb, sub, ph) ==
    {i \in 1..Len(subs) :
        subs[i].callback = cb /\ subs[i].subscriber = sub /\ subs[i].phase = ph}

Bucket(m, e) == IF HasKey(m, e) THEN m[e] ELSE <<>>

\* C1: from any reachable registry, two addScopedEventListener calls with
\* the same event, callback, subscriber and phase and the scope omitted in
\* both (the case the claim names) leave exactly one scope-less record of
\* that tuple in the event's bucket, and the second call adds nothing.
C1_TwiceLeavesOne ==
    \A e \in Events, cb \in Callbacks, sub \in Subscribers, ph \in OptPhases :
        LET m1 == AddAll(subscribers, <<e>>, cb, sub, Undefined, ph)
            m2 == AddAll(m1, <<e>>, cb, sub, Undefined, ph)
        IN /\ Count(m2[e], Listener(cb, DefaultPhase(ph), Undefined, sub)) = 1
           /\ Len(m2[e]) <= Len(m1[e])

\* C2: a scope-less registration for a triple that has records with
\* non-empty scopes in the bucket removes every one of them and leaves
\* exactly one record of the triple, the scope-less one.
C2_GlobalReplacesScoped ==
    \A e \in Events, cb \in Callbacks, sub \in Subscribers, ph \in Phases :
        LET old == Bucket(subscribers, e)
            new == AddAll(subscribers, <<e>>, cb, sub, Undefined, ph)[e]
        IN (\E i \in OfTriple(old, cb, sub, ph) : ~Falsy(old[i].scope))
           => /\ \A i \in OfTriple(new, cb, sub, ph) : Falsy(new[i].scope)
              /\ Cardinality(OfTriple(new, cb, sub, ph)) = 1

\* C3: no bucket holds two records with the same (callback, subscriber,
\* phase) whose scopes are equal or of which one is scope-less.
C3_NoOverlappingRecords ==
    \A e \in DOMAIN subscribers :
        \A i, j \in 1..Len(subscribers[e]) :
            LET a == subscribers[e][i]
                b == subscribers[e][j]
            IN (i # j /\ a.callback = b.callback
                      /\ a.subscriber = b.subscriber /\ a.phase = b.phase)
               => ~(a.scope = b.scope \/ Falsy(a.scope) \/ Falsy(b.scope))

\* C4: no event key of the registry maps to an empty listener list.
C4_NoEmptyBucket ==
    \A e \in DOMAIN subscribers : Len(subscribers[e]) > 0

\* C4 witness: a removal has just taken the last record out of the registry,
\* and its key with it.
C4_Witness ==
    /\ last \in {"remove", "removeAll", "removeScope", "unsubscribe"}
    /\ DOMAIN subscribers = {}

-----------------------------------------------------------------------------
(* Properties of a dispatch.                                               *)

\* The listeners the dispatch has invoked from the registry, in order.
Invoked(log) ==
    LET sc == SelectSeq(log, LAMBDA x : x.kind = "scoped")
    IN [i \in 1..Len(sc) |-> sc[i].listener]

Range(s) == {s[i] : i \in 1..Len(s)}

Broadcasts(log) == {i \in 1..Len(log) : log[i].kind = "broadcast"}

C6_PhaseFilter ==
    \A l \in Range(Invoked(cur.log)) : l.phase = cur.phase

\* C7: a returned dispatch, with any scope or none, has invoked every
\* scope-less record of the event's bucket (of the dispatched phase).
C7_ScopelessHearsAll ==
    pc = "returned"
       => \A l \in Range(Bucket(subscribers, cur.event)) :
             (Falsy(l.scope) /\ l.phase = cur.phase)
                => l \in Range(Invoked(cur.log))

C10_BeforeVeto ==
    (pc = "returned" /\ cur.phase = "before" /\ cur.prevented)
       => \A i \in Broadcasts(cur.log) : cur.log[i].fired = {}

\* C11: a dispatch returns false exactly when it made no broadcast or the
\* broadcast was cancelled, and true otherwise; in particular a 'before'
\* dispatch one of whose listeners called preventDefault returns false.
C11_ReturnValue ==
    pc = "returned"
       => /\ cur.result = ~(Broadcasts(cur.log) = {} \/ cur.e.defaultPrevented)
          /\ (cur.phase = "before" /\ cur.prevented) => cur.result = FALSE

-----------------------------------------------------------------------------
(* Properties of the removing calls.                                       *)

\* C12: removeAllScopedEventListeners(X, scope) takes out of every bucket
\* exactly the records of subscriber X (of that scope when one is given, of
\* any scope or none when omitted): every other record stays, in its
\* original relative order, and no bucket appears.
C12_RemoveAllFrame ==
    \A sub \in Subscribers, sc \in OptScopes :
        LET m2 == RemoveAllOf(subscribers, sub, sc)
        IN /\ DOMAIN m2 \subseteq DOMAIN subscribers
           /\ \A e \in DOMAIN subscribers :
                 Bucket(m2, e) =
                    SelectSeq(subscribers[e],
                              LAMBDA r : ~(r.subscriber = sub
                                           /\ (sc = Undefined \/ r.scope = sc)))

\* C12 witness: a bucket holds two consecutive records of s1 in scope A
\* followed by a record that removeAllScopedEventListeners(s1, A) keeps.
C12_Witness ==
    \E e \in DOMAIN subscribers :
        LET b == subscribers[e] IN
        /\ Len(b) = 3
        /\ b[1].subscriber = "s1" /\ b[1].scope = "A"
        /\ b[2].subscriber = "s1" /\ b[2].scope = "A"
        /\ b[3].subscriber = "s1" /\ b[3].scope # "A"
        /\ Len(Bucket(RemoveAllOf(subscribers, "s1", "A"), e)) = 1
        /\ Bucket(RemoveAllOf(subscribers, "s1", Undefined), e) = <<>>

\* C13: after removeScope(S) no bucket holds a record of scope S, and every
\* record of another scope or of none is still there, in its original
\* relative order.
C13_RemoveScopeFrame ==
    \A sc \in Scopes :
        LET m2 == RemoveScopeOf(subscribers, sc)
        IN /\ \A e \in DOMAIN m2 : \A i \in 1..Len(m2[e]) : m2[e][i].scope # sc
           /\ DOMAIN m2 \subseteq DOMAIN subscribers
           /\ \A e \in DOMAIN subscribers :
                 Bucket(m2, e) =
                    SelectSeq(subscribers[e], LAMBDA r : r.scope # sc)

\* C13 witness: a bucket holds two consecutive records of scope A, of two
\* subscribers, and then a scope-less record, which removeScope(A) leaves
\* alone in the bucket.
C13_Witness ==
    \E e \in DOMAIN subscribers :
        LET b == subscribers[e] IN
        /\ Len(b) = 3
        /\ b[1].scope = "A" /\ b[2].scope = "A"
        /\ b[1].subscriber # b[2].subscriber
        /\ b[3].scope = Undefined
        /\ Bucket(RemoveScopeOf(subscribers, "A"), e) = <<b[3]>>

\* C14: removeScopedEventListener with a scope and a phase given removes
\* from the bucket of each listed event the one record with exactly that
\* callback, subscriber, scope and phase, of which a bucket never holds two,
\* and leaves every other record and every other bucket as it was.
C14_ExactRemoval ==
    \A evs \in EventLists, cb \in Callbacks, sub \in Subscribers,
       sc \in Scopes, ph \in Phases :
        LET m2 == RemoveAll(subscribers, evs, cb, sub, sc, ph)
            t == Listener(cb, ph, sc, sub)
        IN /\ DOMAIN m2 \subseteq DOMAIN subscribers
           /\ \A e \in DOMAIN subscribers :
                 /\ Count(subscribers[e], t) <= 1
                 /\ Bucket(m2, e) =
                       IF e \in Range(evs)
                       THEN SelectSeq(subscribers[e], LAMBDA r : r # t)
                       ELSE subscribers[e]

\* C14 witness: the bucket of e1 holds f of s1 in scope B for 'before', in
\* scope A for 'after' and in scope A for 'before', and the removal of the
\* last takes it alone.
C14_Witness ==
    /\ HasKey(subscribers, "e1")
    /\ subscribers["e1"] = << Listener("f", "before", "B", "s1"),
                              Listener("f", "after", "A", "s1"),
                              Listener("f", "before", "A", "s1") >>
    /\ RemoveAll(subscribers, <<"e1">>, "f", "s1", "A", "before")["e1"]
          = << Listener("f", "before", "B", "s1"),
               Listener("f", "after", "A", "s1") >>

\* C15: after removeScopedEventListener(event, callback, subscriber) with
\* scope and phase omitted, the event's bucket holds no record of that
\* callback and subscriber, in any scope or phase.
C15_WildcardRemoval ==
    \A e \in Events, cb \in Callbacks, sub \in Subscribers :
        LET m2 == RemoveAll(subscribers, <<e>>, cb, sub, Undefined, Undefined)
        IN \A r \in Range(Bucket(m2, e)) :
              ~(r.callback = cb /\ r.subscriber = sub)

\* C16: a removing call whose arguments match no stored record leaves the
\* registry exactly as it was, an event without a bucket included.
C16_MissesAreNoOps ==
    /\ \A evs \in EventLists, cb \in Callbacks, sub \in Subscribers,
          sc \in OptScopes, ph \in OptPhases :
          (\A e \in Range(evs) : \A r \in Range(Bucket(subscribers, e)) :
              ~(/\ r.callback = cb /\ r.subscriber = sub
                /\ (sc = Undefined \/ r.scope = sc)
                /\ (ph = Undefined \/ r.phase = ph)))
             => RemoveAll(subscribers, evs, cb, sub, sc, ph) = subscribers
    /\ \A sub \in Subscribers, sc \in OptScopes :
          (\A e \in DOMAIN subscribers : \A r \in Range(subscribers[e]) :
              ~(r.subscriber = sub /\ (sc = Undefined \/ r.scope = sc)))
             => RemoveAllOf(subscribers, sub, sc) = subscribers
    /\ \A sc \in Scopes :
          (\A e \in DOMAIN subscribers : \A r \in Range(subscribers[e]) :
              r.scope # sc)
             => RemoveScopeOf(subscribers, sc) = subscribers
    /\ \A e \in Events, sub \in Subscribers, sc \in OptScopes,
          ph \in OptPhases :
          (\A r \in Range(Bucket(subscribers, e)) :
              ~(/\ r.subscriber = sub /\ r.scope = sc
                /\ (ph = Undefined \/ r.phase = ph)))
             => HookUnsubscribe(subscribers, e, sub, sc, ph) = subscribers

\* C16 witness: the registry holds two records or more, all of them in the
\* bucket of e1 and of subscriber s1 in scope A: calls naming e2, s2, B or no
\* scope for the hooks match nothing.
C16_Witness ==
    /\ DOMAIN subscribers = {"e1"}
    /\ Len(subscribers["e1"]) >= 2
    /\ \A r \in Range(subscribers["e1"]) : r.subscriber = "s1" /\ r.scope = "A"
    /\ RemoveAll(subscribers, <<"e2">>, "f", "s1", "A", "after") = subscribers
    /\ RemoveAllOf(subscribers, "s2", Undefined) = subscribers
    /\ RemoveScopeOf(subscribers, "B") = subscribers
    /\ HookUnsubscribe(subscribers, "e1", "s1", Undefined, Undefined) = subscribers

\* C17: when addScopedEventListener adds a record to the bucket of an event
\* of its list, the function it returns removes exactly that record from the
\* bucket, deleting the key when the record was alone, and changes no bucket
\* of an event outside the list.
C17_Unsubscriber ==
    \A evs \in EventLists, cb \in Callbacks, sub \in Subscribers,
       sc \in OptScopes, ph \in OptPhases :
        LET p == DefaultPhase(ph)
            m1 == AddAll(subscribers, evs, cb, sub, sc, ph)
            m2 == RemoveAll(m1, evs, cb, sub, sc, p)
        IN /\ \A e \in Range(evs) :
                 AddScan(Bucket(subscribers, e), 1, cb, sub, sc, p).add
                    => /\ Bucket(m2, e) = SubSeq(m1[e], 1, Len(m1[e]) - 1)
                       /\ Len(m1[e]) = 1 => ~HasKey(m2, e)
           /\ \A e \in Events \ Range(evs) :
                 Bucket(m2, e) = Bucket(subscribers, e)

\* C18: unsubscribe(phase) of the hooks of (event, subscriber, scope) takes
\* out of the event's bucket exactly the records of that subscriber and that
\* scope (of no scope, for hooks made without one) in the given phase, or in
\* either phase when none is given, and leaves every other record in place.
C18_HookUnsubscribe ==
    \A e \in Events, sub \in Subscribers, sc \in OptScopes, ph \in OptPhases :
        LET m2 == HookUnsubscribe(subscribers, e, sub, sc, ph)
        IN /\ Bucket(m2, e) =
                 SelectSeq(Bucket(subscribers, e),
                           LAMBDA r : ~(/\ r.subscriber = sub /\ r.scope = sc
                                        /\ (ph = Undefined \/ r.phase = ph)))
           /\ \A k \in Events \ {e} : Bucket(m2, k) = Bucket(subscribers, k)

-----------------------------------------------------------------------------
(* Properties of addEventListener and removeEventListener.                 *)

C20_RemoveSymmetric ==
    \A type \in Events, cb \in Callbacks, opts \in OptionShapes :
        LET a == AddListener(subscribers, plain, type, cb, opts)
            r == RemoveListener(a.subscribers, a.plain, type, cb, opts)
        IN /\ a.plain # plain => <<type, cb>> \notin r.plain
           /\ a.subscribers # subscribers => r.subscribers = subscribers

\* C21: removeEventListener(type, callback) with no options removes a scoped
\* record of that callback from the bucket of type: the bucket shrinks by
\* that record.
C21_RemoveListenerScoped ==
    \A e \in DOMAIN subscribers : \A i \in 1..Len(subscribers[e]) :
        LET l == subscribers[e][i]
            r == RemoveListener(subscribers, plain, e, l.callback, NoOptions)
        IN ~Falsy(l.scope)
              => /\ Len(Bucket(r.subscribers, e)) = Len(subscribers[e]) - 1
                 /\ Count(Bucket(r.subscribers, e), l) = 0

\* C22: a registering or removing call whose callback is not a function
\* changes neither store, whichever of addEventListener,
\* addScopedEventListener, removeEventListener and removeScopedEventListener
\* it is.
C22_NotCallableNoOp ==
    /\ \A type \in Events, opts \in OptionShapes :
          /\ AddListener(subscribers, plain, type, NotCallable, opts)
                = [subscribers |-> subscribers, plain |-> plain]
          /\ RemoveListener(subscribers, plain, type, NotCallable, opts)
                = [subscribers |-> subscribers, plain |-> plain]
    /\ \A evs \in EventLists, sub \in Subscribers,
          sc \in OptScopes, ph \in OptPhases :
          /\ AddAll(subscribers, evs, NotCallable, sub, sc, ph) = subscribers
          /\ RemoveAll(subscribers, evs, NotCallable, sub, sc, ph) = subscribers

\* C28: addEventListener with options carrying a subscriber and a scope and
\* no phase stores a scoped record of phase 'after' for that subscriber and
\* scope, and registers nothing on the EventTarget.
C28_PhaseOptional ==
    \A type \in Events, cb \in Callbacks, sub \in Subscribers, sc \in Scopes :
        LET r == AddListener(subscribers, plain, type, cb,
                             Options(sub, sc, Undefined))
        IN /\ r.subscribers = AddAll(subscribers, <<type>>, cb, sub, sc, "after")
           /\ r.plain = plain

\* C29: addScopedEventListener with a list of events leaves the registry as
\* separate calls for each event of the list, in list order, leave it: an
\* event for which the listener is registered already is skipped and the
\* later events are still registered, and the bucket of an event outside the
\* list is unchanged.
C29_ListIsSequence ==
    \A evs \in {<<"e1", "e2">>, <<"e2", "e1">>, <<"e1", "e1">>},
       cb \in Callbacks, sub \in Subscribers,
       sc \in OptScopes, ph \in OptPhases :
        LET whole == AddAll(subscribers, evs, cb, sub, sc, ph)
            first == AddAll(subscribers, <<evs[1]>>, cb, sub, sc, ph)
            each == AddAll(first, <<evs[2]>>, cb, sub, sc, ph)
        IN /\ whole = each
           /\ \A e \in Events \ Range(evs) :
                 Bucket(whole, e) = Bucket(subscribers, e)
           /\ \A k \in 1..Len(evs) :
                 \E r \in Range(whole[evs[k]]) :
                    /\ r.callback = cb /\ r.subscriber = sub
                    /\ r.phase = DefaultPhase(ph)
                    /\ (r.scope = sc \/ Falsy(r.scope))

\* C29 witness: f of s1 is registered in scope A for e1 and not for e2, and
\* the call for the list of e1 and e2 skips e1 and registers e2.
C29_Witness ==
    LET r == Listener("f", "after", "A", "s1")
        whole == AddAll(subscribers, <<"e1", "e2">>, "f", "s1", "A", Undefined)
    IN /\ Count(Bucket(subscribers, "e1"), r) = 1
       /\ Count(Bucket(subscribers, "e2"), r) = 0
       /\ Len(Bucket(subscribers, "e2")) >= 1
       /\ whole["e1"] = subscribers["e1"]
       /\ whole["e2"] = Append(subscribers["e2"], r)

-----------------------------------------------------------------------------
(* Properties of a dispatch and the callbacks it invokes.                  *)

\* C24: when a listener raises during a dispatch, the other matching
\* listeners of the bucket are still invoked and the broadcast still takes
\* place.
C24_CallbackIsolation ==
    pc = "aborted"
       => /\ \A l \in Range(Bucket(subscribers, cur.event)) :
                l.scope = cur.scope => l \in Range(Invoked(cur.log))
          /\ Broadcasts(cur.log) # {}

\* Whether a is b with some of its elements left out, the others in order.
RECURSIVE IsSubSeq(_, _)
IsSubSeq(a, b) ==
    IF a = <<>> THEN TRUE
    ELSE IF b = <<>> THEN FALSE
    ELSE IF Head(a) = Head(b) THEN IsSubSeq(Tail(a), Tail(b))
    ELSE IsSubSeq(a, Tail(b))

\* C27: a dispatch invokes the matching records of the bucket in the order
\* of the bucket, and that is the order of registration: between calls,
\* every registering call keeps the records it leaves in their order and puts
\* a new record last, and every removing call keeps the records it leaves in
\* their order.
C27_RegistrationOrder ==
    /\ Invoked(cur.log) =
          SelectSeq(SubSeq(Bucket(subscribers, cur.event), 1, cur.i - 1),
                    LAMBDA r : r.scope = cur.scope)
    /\ pc = "idle" =>
          /\ \A e \in Events, cb \in Callbacks, sub \in Subscribers,
                sc \in OptScopes, ph \in OptPhases :
                LET old == Bucket(subscribers, e)
                    new == AddAll(subscribers, <<e>>, cb, sub, sc, ph)[e]
                    rec == Listener(cb, DefaultPhase(ph), sc, sub)
                IN \/ IsSubSeq(new, old)
                   \/ /\ new[Len(new)] = rec
                      /\ IsSubSeq(SubSeq(new, 1, Len(new) - 1), old)
          /\ \A e \in Events, cb \in Callbacks, sub \in Subscribers,
                sc \in OptScopes, ph \in OptPhases :
                /\ IsSubSeq(Bucket(RemoveAll(subscribers, <<e>>, cb, sub, sc, ph), e),
                            Bucket(subscribers, e))
                /\ IsSubSeq(Bucket(HookUnsubscribe(subscribers, e, sub, sc, ph), e),
                            Bucket(subscribers, e))
                /\ IsSubSeq(Bucket(RemoveAllOf(subscribers, sub, sc), e),
                            Bucket(subscribers, e))
                /\ sc # Undefined =>
                      IsSubSeq(Bucket(RemoveScopeOf(subscribers, sc), e),
                               Bucket(subscribers, e))

\* C27 witness: a dispatch in scope A has returned having invoked the first
\* and the third record of the bucket, in that order, the second being of
\* another scope.
C27_Witness ==
    /\ pc = "returned" /\ cur.scope = "A" /\ HasKey(subscribers, cur.event)
    /\ Len(subscribers[cur.event]) = 3
    /\ subscribers[cur.event][2].scope # "A"
    /\ Invoked(cur.log) = <<subscribers[cur.event][1], subscribers[cur.event][3]>>
    /\ subscribers[cur.event][1] # subscribers[cur.event][3]

\* C30: no step of a dispatch changes the registry, when no callback calls
\* the bus: neither its start, nor an invocation, whether the callback
\* returns or raises, nor the broadcast.
C30_DispatchKeepsRegistry ==
    [][pc' \in {"scoped", "global", "returned", "aborted"}
          => subscribers' = subscribers]_vars

\* C30 witness: a dispatch has been aborted by its second listener raising,
\* with the registry full.
C30_Witness ==
    /\ pc = "aborted"
    /\ Len(Invoked(cur.log)) = 2
    /\ Total(subscribers) = MaxRecords

\* Whether regular expression p matches the whole of name.
Matches(p, name) ==
    \/ p = "/^e1$/" /\ name = "e1"
    \/ p = "/^e[12]$/" /\ name \in {"e1", "e2"}

\* C23: a returned dispatch of a name in scope S has invoked every listener
\* registered under scope S, in the dispatched phase, with a regular
\* expression that matches the name, and none registered with one that does
\* not match it (unless the same listener is registered for the name).
C23_PatternMatch ==
    (pc = "returned" /\ ~Falsy(cur.scope))
       => \A p \in Patterns \cap DOMAIN subscribers :
             \A l \in Range(subscribers[p]) :
                (l.scope = cur.scope /\ l.phase = cur.phase)
                   => IF Matches(p, cur.event)
                      THEN l \in Range(Invoked(cur.log))
                      ELSE \/ l \notin Range(Invoked(cur.log))
                           \/ l \in Range(Bucket(subscribers, cur.event))

\* The entries of the log for bus calls of the given kind.
Calls(log, kind) == {i \in 1..Len(log) : log[i].kind = kind}

\* C25: when the callbacks of a dispatch remove records of the bucket (and
\* register none), every matching record still in the bucket when the
\* dispatch returns has been invoked exactly once.
C25_RemovalSkipsNone ==
    (pc = "returned" /\ Calls(cur.log, "added") = {})
       => \A l \in Range(Bucket(subscribers, cur.event)) :
             l.scope = cur.scope => Count(Invoked(cur.log), l) = 1

\* C26: a record that a callback registers for the dispatched event and
\* scope while the dispatch runs (no callback removing any) is not invoked
\* by that dispatch.
C26_SnapshotAtStart ==
    (pc = "returned" /\ Calls(cur.log, "removed") = {})
       => \A i \in Calls(cur.log, "added") :
             Count(Invoked(cur.log), cur.log[i].listener) = 0

------------------------------------------------------------------------------
(* The scoped registry and the plain listeners.                            *)

\* A call that removes from the scoped registry.
ScopedRemoval ==
    \/ \E e \in Events, sc \in Scopes, ph \in Phases :
          removeScopedEventListener(<<e>>, "f", "s1", sc, ph)
    \/ \E sc \in OptScopes : removeAllScopedEventListeners("s1", sc)
    \/ \E sc \in Scopes : removeScope(sc)
    \/ \E e \in Events, sc \in Scopes, ph \in OptPhases :
          hooksUnsubscribe(e, "s1", sc, ph)

\* No call that removes from the scoped registry changes the plain
\* listeners.
RemovalsKeepPlain == [][ScopedRemoval => plain' = plain]_vars

\* Some call has removed from the scoped registry and a plain listener of
\* e1 is there.
RemovalsKeepPlainWitness ==
    /\ last \in {"remove", "removeAll", "removeScope", "unsubscribe"}
    /\ Fired(plain, "e1") # {}

\* C31: the calls that remove from the scoped registry leave the plain
\* listeners alone, and a plain listener fires on every dispatch of its
\* event type: when a dispatch has ended, its broadcast has fired every
\* plain listener of the dispatched type.
C31_PlainKeepsFiring ==
    pc \in {"returned", "aborted"}
       => \A cb \in Fired(plain, cur.event) :
             \E i \in Broadcasts(cur.log) : cb \in cur.log[i].fired

====
